---- MODULE Spec2Model ----
(***************************************************************************)
(* Model of app.py: the Modbus frame codec, the acquisition worker         *)
(* (_serial_worker), the lazy worker start (start_worker_once), the        *)
(* bounded history guarded by the condition variable _cond, and the        *)
(* request handlers /, /status, /history and /stream.                      *)
(*                                                                         *)
(* Every Flask request runs in its own thread (threaded=True), so a        *)
(* request is a process of the model; the worker started by request r is   *)
(* worker r.  Steps are the points at which CPython may switch threads.    *)
(***************************************************************************)
EXTENDS Naturals, Integers, Sequences, FiniteSets, TLC

\* ------------------------------------------------------------------ bounds
\* Number of request threads.
NReq == 2
\* Largest history capacity HISTORY_MAX the configuration is drawn from.
MaxCap == 1
\* Number of readings the workers may timestamp (and so append) in a run.
MaxAppends == 2

\* ------------------------------------------------------ program constants
\* list(history)[-500:]
SNAPSHOT_MAX == 500
\* ser.read(19) and the length test of _parse_frame
FRAME_LEN == 19

Req == 1..NReq

\* ------------------------------------------------------------- frame codec
\* TLC re-evaluates an operator's argument at each use; the codec binds every
\* intermediate value once, as the only element of a set: v \in {e}.

\* Bit k of x.
Bit(x, k) == (x \div (2 ^ k)) % 2

\* x with bit k inverted.
FlipBit(x, k) ==
  CHOOSE r \in {IF Bit(v, k) = 1 THEN v - 2 ^ k ELSE v + 2 ^ k : v \in {x}} : TRUE

\* x ^ b restricted to bit k of b.
XorBit(x, b, k) == IF Bit(b, k) = 1 THEN FlipBit(x, k) ELSE x

\* crc ^= b, for a byte b: only the low eight bits of crc can change.
XorByte(crc, b) ==
  XorBit(XorBit(XorBit(XorBit(XorBit(XorBit(XorBit(XorBit(
    crc, b, 0), b, 1), b, 2), b, 3), b, 4), b, 5), b, 6), b, 7)

\* One pass of the inner loop of _crc16_modbus:
\* (crc >> 1) ^ 0xA001 if crc & 1 else crc >> 1, 0xA001 being bits 15, 13, 0.
CrcStep(crc) ==
  CHOOSE r \in {IF c % 2 = 1
                THEN FlipBit(FlipBit(FlipBit(c \div 2, 15), 13), 0)
                ELSE c \div 2 : c \in {crc}} : TRUE

\* for _ in range(8)
CrcShift(crc) ==
  CrcStep(CrcStep(CrcStep(CrcStep(CrcStep(CrcStep(CrcStep(CrcStep(crc))))))))

\* for b in data (the parameter, here bytes): reg[i] is the register after the first i bytes.
_crc16_modbus(bytes) ==
  LET reg[i \in 0..Len(bytes)] ==
        IF i = 0 THEN 65535
        ELSE CHOOSE r \in {CrcShift(XorByte(prev, bytes[i])) :
                            prev \in {reg[i - 1]}} : TRUE
  IN reg[Len(bytes)] % 65536

\* Mutant of QUERY_FRAME: the checksum bytes in big-endian order.
QUERY_FRAME_crc_high_first == <<1, 3, 0, 0, 0, 7, 8, 4>>

QUERY_FRAME == <<1, 3, 0, 0, 0, 7, 4, 8>>

\* frame[:-2]
WithoutCrc(frame) == SubSeq(frame, 1, Len(frame) - 2)

\* frame[-2] | (frame[-1] << 8)
CrcExpected(frame) == frame[Len(frame) - 1] + 256 * frame[Len(frame)]

\* regs[i] of _parse_frame, i = 0..6: (hi << 8) | lo
Reg(frame, i) == 256 * frame[4 + 2 * i] + frame[5 + 2 * i]

\* Mutant of _parse_frame: the checksum is not verified.
_parse_frame_unchecked(frame) ==
  IF Len(frame) # FRAME_LEN THEN [ok |-> FALSE, err |-> "length"]
  ELSE IF frame[2] # 3 THEN [ok |-> FALSE, err |-> "function"]
  ELSE IF frame[3] # 14 THEN [ok |-> FALSE, err |-> "bytecount"]
  ELSE [ok |-> TRUE,
        data |-> [sensor_id |-> frame[1],
                  humidity_x10 |-> Reg(frame, 0),
                  temperature_x10 |-> Reg(frame, 1),
                  conductivity |-> Reg(frame, 2),
                  ph_x10 |-> Reg(frame, 3),
                  nitrogen |-> Reg(frame, 4),
                  phosphorus |-> Reg(frame, 5),
                  potassium |-> Reg(frame, 6)]]

\* Mutant of _parse_frame: the function code is tested before the checksum.
_parse_frame_function_first(frame) ==
  IF Len(frame) # FRAME_LEN THEN [ok |-> FALSE, err |-> "length"]
  ELSE IF frame[2] # 3 THEN [ok |-> FALSE, err |-> "function"]
  ELSE IF CrcExpected(frame) # _crc16_modbus(WithoutCrc(frame))
    THEN [ok |-> FALSE, err |-> "crc"]
  ELSE _parse_frame_unchecked(frame)

\* _parse_frame: the error raised, or the decoded reading.  Measurements
\* divided by 10.0 in the source are kept in tenths.
_parse_frame(frame) ==
  IF Len(frame) # FRAME_LEN THEN [ok |-> FALSE, err |-> "length"]
  ELSE IF CrcExpected(frame) # _crc16_modbus(WithoutCrc(frame))
    THEN [ok |-> FALSE, err |-> "crc"]
  ELSE IF frame[2] # 3 THEN [ok |-> FALSE, err |-> "function"]
  ELSE IF frame[3] # 14 THEN [ok |-> FALSE, err |-> "bytecount"]
  ELSE [ok |-> TRUE,
        data |-> [sensor_id |-> frame[1],
                  humidity_x10 |-> Reg(frame, 0),
                  temperature_x10 |-> Reg(frame, 1),
                  conductivity |-> Reg(frame, 2),
                  ph_x10 |-> Reg(frame, 3),
                  nitrogen |-> Reg(frame, 4),
                  phosphorus |-> Reg(frame, 5),
                  potassium |-> Reg(frame, 6)]]

\* ------------------------------------------- what the device may answer
\* A frame body followed by its checksum, low byte first.
Sealed(body) ==
  body \o <<(_crc16_modbus(body)) % 256, (_crc16_modbus(body)) \div 256>>

\* Big-endian bytes of the registers 550, 350, 400, 65, 20, 15, 30.
RegBytes == <<2, 38, 1, 94, 1, 144, 0, 65, 0, 20, 0, 15, 0, 30>>

FrameGood == Sealed(<<1, 3, 14>> \o RegBytes)
FrameBadCrc == [FrameGood EXCEPT ![FRAME_LEN] = (FrameGood[FRAME_LEN] + 1) % 256]
FrameBadFunction == Sealed(<<1, 4, 14>> \o RegBytes)
FrameBadCount == Sealed(<<1, 3, 12>> \o RegBytes)
FrameShort == SubSeq(FrameGood, 1, FRAME_LEN - 1)
FrameEmpty == <<>>

\* What ser.read(19) may return: at most 19 bytes.
Responses ==
  {FrameGood, FrameBadCrc, FrameBadFunction, FrameBadCount, FrameShort, FrameEmpty}

\* _parse_frame of every possible response.
ParseTable == [f \in Responses |-> _parse_frame(f)]

\* -------------------------------------------------------------------- state
VARIABLES
  HISTORY_MAX,      \* configuration: capacity of the history deque
  FALLBACK_TO_SIM,  \* configuration: SIMULATE_ON_ERROR == "1"
  serial,           \* TRUE iff pyserial could be imported (serial is not None)
  portPresent,      \* environment: TRUE iff COM_PORT can be opened at all
  history,          \* the deque, oldest first
  _last_seq,
  _is_simulating,
  _worker_started,
  _cond,            \* owner of the lock of the condition variable
  clock,            \* datetime.utcnow(), as a count of the timestamps taken
  route,            \* route[r]: the route of request r
  rpc,              \* rpc[r]: where request thread r is
  last_seen,        \* last_seen[r]: local of event_stream
  payload,          \* payload[r]: the reading event_stream read last
  emittedAt,        \* emittedAt[r]: last_seen at the last message r emitted,
                    \* 0 before the first
  wpc,              \* wpc[w]: where worker w is ("unstarted" before t.start())
  ser,              \* ser[w]: local of _serial_worker, "None" or "open"
  data,             \* data[w]: local of _serial_worker
  wire,             \* wire[w]: the query w wrote on its link, not yet answered
  decodeIn,         \* the frame of a call of _parse_frame made on its own
  decodeOut,        \* what that call raised or returned, NotDecoded before
  \* history variables of the verification
  appended,         \* every reading appended so far, in append order
  arg,              \* arg[r]: last_seen at the start of the current wait
  called,           \* called[r]: _last_seq at the start of the current wait
  blocked,          \* blocked[r]: the current wait went through _cond.wait
  lockAtAccess,     \* lockAtAccess[r]: owner of _cond when r read the history,
                    \* NotRead before
  cycleAppended     \* cycleAppended[w]: w appended in its current cycle

vars ==
  <<HISTORY_MAX, FALLBACK_TO_SIM, serial, portPresent, history, _last_seq,
    _is_simulating, _worker_started, _cond, clock, route, rpc, last_seen,
    payload, emittedAt, wpc, ser, data, wire, decodeIn, decodeOut, appended,
    arg, called, blocked, lockAtAccess, cycleAppended>>

\* What no step of the server changes: the configuration, and the input and
\* the result of a decode made apart from the server.
decode == <<decodeIn, decodeOut>>
config == <<HISTORY_MAX, FALLBACK_TO_SIM, serial, portPresent, decode>>
reqLocals ==
  <<route, last_seen, payload, emittedAt, arg, called, blocked, lockAtAccess>>
store == <<history, _last_seq, appended>>

NoOne == <<"none", 0>>
NotRead == <<"not read", 0>>
WorkerThread(w) == <<"worker", w>>
RequestThread(r) == <<"request", r>>

NoReading == [kind |-> "none"]
NotDecoded == [ok |-> FALSE, err |-> "not called"]

Routes == {"index", "status", "history", "stream"}

ServerInit ==
  /\ HISTORY_MAX \in 0..MaxCap
  /\ FALLBACK_TO_SIM \in BOOLEAN
  /\ serial \in BOOLEAN
  /\ portPresent \in BOOLEAN
  /\ (~serial => ~portPresent)
  /\ history = <<>>
  /\ _last_seq = 0
  /\ _is_simulating = FALSE
  /\ _worker_started = FALSE
  /\ _cond = NoOne
  /\ clock = 0
  /\ route = [r \in Req |-> "none"]
  /\ rpc = [r \in Req |-> "idle"]
  /\ last_seen = [r \in Req |-> 0]
  /\ payload = [r \in Req |-> NoReading]
  /\ emittedAt = [r \in Req |-> 0]
  /\ wpc = [w \in Req |-> "unstarted"]
  /\ ser = [w \in Req |-> "None"]
  /\ data = [w \in Req |-> NoReading]
  /\ wire = [w \in Req |-> <<>>]
  /\ appended = <<>>
  /\ arg = [r \in Req |-> 0]
  /\ called = [r \in Req |-> 0]
  /\ blocked = [r \in Req |-> FALSE]
  /\ lockAtAccess = [r \in Req |-> NotRead]
  /\ cycleAppended = [w \in Req |-> FALSE]

\* The server: no decode is made apart from it.
Init ==
  /\ ServerInit
  /\ decodeIn = <<>>
  /\ decodeOut = NotDecoded

\* ------------------------------------------------ pure helpers of the store
\* Mutant of DequeAppend: a deque created without maxlen never evicts.
DequeAppendUnbounded(h, x, maxlen) == Append(h, x)

\* deque.append on a deque with maxlen: append, then drop from the left
\* while the deque is longer than maxlen.
DequeAppend(h, x, maxlen) ==
  LET a == Append(h, x) IN IF Len(a) > maxlen THEN Tail(a) ELSE a

\* s[-n:] for n >= 1
LastN(s, n) == IF Len(s) <= n THEN s ELSE SubSeq(s, Len(s) - n + 1, Len(s))

\* Mutant of notify_all: _cond.notify() wakes one waiter only.
notify_one(waiters) ==
  IF waiters = {} THEN {} ELSE {CHOOSE q \in waiters : TRUE}

\* The threads _cond.notify_all() wakes: every thread blocked in wait.
notify_all(waiters) == waiters

\* The synthetic reading of a simulated cycle.  nitrogen, phosphorus and
\* potassium never move (int(0.4 - 0.8 * random()) is 0); the drift of the
\* other fields is a bounded walk inside the clamp ranges and is left at its
\* start value.
SimReading ==
  [sensor_id |-> 1, humidity_x10 |-> 550, temperature_x10 |-> 285,
   conductivity |-> 450, ph_x10 |-> 65, nitrogen |-> 20, phosphorus |-> 15,
   potassium |-> 30]

\* A reading on its way to the history: the record of the source plus where
\* it came from (origin, frame), which the verification tracks.
FromDevice(frame) ==
  [kind |-> "reading", origin |-> "device", frame |-> frame,
   fields |-> ParseTable[frame].data, timestamp |-> 0]
FromSim ==
  [kind |-> "reading", origin |-> "sim", frame |-> <<>>,
   fields |-> SimReading, timestamp |-> 0]

\* --------------------------------------------------------- request threads
\* Where a request goes once start_worker_once() has returned.
AfterStart(rt) ==
  CASE rt = "index" -> "done"
    [] rt = "history" -> "snapshot"
    [] rt = "stream" -> "stream_init"

\* index() is over once start_worker_once() has returned; a request that is
\* over keeps no route.
RouteAfterStart(rt) == IF rt = "index" THEN "none" ELSE rt

\* A request arrives on one of the four routes; /status does not start the
\* worker.  Request threads are interchangeable: they are numbered in their
\* order of arrival.
Begin(r) ==
  /\ rpc[r] = "idle"
  /\ \A q \in Req : q < r => rpc[q] # "idle"
  /\ \E rt \in Routes :
       /\ route' = [route EXCEPT ![r] = rt]
       /\ rpc' = [rpc EXCEPT ![r] = IF rt = "status" THEN "status" ELSE "check_started"]
  /\ UNCHANGED <<config, wire, emittedAt, store, _is_simulating,
                 _worker_started, _cond, clock, last_seen, payload, wpc, ser,
                 data, arg, called, blocked, lockAtAccess, cycleAppended>>

\* start_worker_once, lines 156-158: if not _worker_started, create and
\* start the worker thread (the flag is still unset when the thread runs).
CheckStarted(r) ==
  /\ rpc[r] = "check_started"
  /\ \/ /\ _worker_started
        /\ rpc' = [rpc EXCEPT ![r] = AfterStart(route[r])]
        /\ route' = [route EXCEPT ![r] = RouteAfterStart(route[r])]
        /\ UNCHANGED wpc
     \/ /\ ~_worker_started
        /\ wpc' = [wpc EXCEPT ![r] = "connect"]
        /\ rpc' = [rpc EXCEPT ![r] = "set_started"]
        /\ UNCHANGED route
  /\ UNCHANGED <<config, wire, emittedAt, store, _is_simulating,
                 _worker_started, _cond, clock, last_seen, payload, arg,
                 called, blocked, lockAtAccess, ser, data, cycleAppended>>

\* start_worker_once, line 159: _worker_started = True; the call returns.
SetStarted(r) ==
  /\ rpc[r] = "set_started"
  /\ _worker_started' = TRUE
  /\ rpc' = [rpc EXCEPT ![r] = AfterStart(route[r])]
  /\ route' = [route EXCEPT ![r] = RouteAfterStart(route[r])]
  /\ UNCHANGED <<config, wire, emittedAt, store, _is_simulating, _cond, clock,
                 last_seen, payload, arg, called, blocked, lockAtAccess, wpc,
                 ser, data, cycleAppended>>

\* What status() answers, lines 168-173 (com_port and baudrate are fixed).
StatusAnswer == [simulating |-> _is_simulating, history_len |-> Len(history)]

\* What get_history() answers, line 178: list(history)[-500:]
HistoryAnswer == LastN(history, SNAPSHOT_MAX)

\* status(): reads _is_simulating and len(history) and answers; the answer
\* leaves the program, the model keeps who held the lock at the read.
Status(r) ==
  /\ rpc[r] = "status"
  /\ lockAtAccess' = [lockAtAccess EXCEPT ![r] = _cond]
  /\ rpc' = [rpc EXCEPT ![r] = "done"]
  /\ route' = [route EXCEPT ![r] = "none"]
  /\ UNCHANGED <<config, wire, emittedAt, store, _is_simulating,
                 _worker_started, _cond, clock, last_seen, payload, wpc, ser,
                 data, arg, called, blocked, cycleAppended>>

\* get_history(): copies the deque and answers.
Snapshot(r) ==
  /\ rpc[r] = "snapshot"
  /\ lockAtAccess' = [lockAtAccess EXCEPT ![r] = _cond]
  /\ rpc' = [rpc EXCEPT ![r] = "done"]
  /\ route' = [route EXCEPT ![r] = "none"]
  /\ UNCHANGED <<config, wire, emittedAt, store, _is_simulating,
                 _worker_started, _cond, clock, last_seen, payload, wpc, ser,
                 data, arg, called, blocked, cycleAppended>>

\* stream(), line 190: event_stream(_last_seq); the argument is read without
\* the lock, the generator body starts when the response is iterated.
StreamInit(r) ==
  /\ rpc[r] = "stream_init"
  /\ last_seen' = [last_seen EXCEPT ![r] = _last_seq]
  /\ rpc' = [rpc EXCEPT ![r] = "sub_acquire"]
  /\ UNCHANGED <<config, wire, emittedAt, store, _is_simulating,
                 _worker_started, _cond, clock, route, payload, wpc, ser,
                 data, arg, called, blocked, lockAtAccess, cycleAppended>>

\* event_stream, line 185: with _cond: (one wait for the next reading begins)
SubAcquire(r) ==
  /\ rpc[r] = "sub_acquire"
  /\ _cond = NoOne
  /\ _cond' = RequestThread(r)
  /\ arg' = [arg EXCEPT ![r] = last_seen[r]]
  /\ called' = [called EXCEPT ![r] = _last_seq]
  /\ blocked' = [blocked EXCEPT ![r] = FALSE]
  /\ rpc' = [rpc EXCEPT ![r] = "sub_check"]
  /\ UNCHANGED <<config, wire, emittedAt, store, _is_simulating,
                 _worker_started, clock, route, last_seen, payload, wpc, ser,
                 data, lockAtAccess, cycleAppended>>

\* Mutant of SubCheck: last_seen is not updated when the wait returns.
SubCheckKeepsLastSeen(r) ==
  /\ rpc[r] = "sub_check"
  /\ _cond = RequestThread(r)
  /\ _cond' = NoOne
  /\ \/ /\ _last_seq = last_seen[r]
        /\ rpc' = [rpc EXCEPT ![r] = "waiting"]
        /\ blocked' = [blocked EXCEPT ![r] = TRUE]
        /\ UNCHANGED payload
     \/ /\ _last_seq # last_seen[r]
        /\ history # <<>>
        /\ payload' = [payload EXCEPT ![r] = history[Len(history)]]
        /\ rpc' = [rpc EXCEPT ![r] = "yield"]
        /\ UNCHANGED blocked
     \/ /\ _last_seq # last_seen[r]
        /\ history = <<>>
        /\ rpc' = [rpc EXCEPT ![r] = "error"]
        /\ UNCHANGED <<blocked, payload>>
  /\ UNCHANGED <<config, wire, emittedAt, store, _is_simulating,
                 _worker_started, clock, route, last_seen, wpc, ser, data,
                 arg, called, lockAtAccess, cycleAppended>>

\* Mutant of SubCheck: _cond.wait() in place of wait_for(predicate): the
\* thread waits once whatever the counter, and returns when it is woken.
SubCheckPlainWait(r) ==
  /\ rpc[r] = "sub_check"
  /\ _cond = RequestThread(r)
  /\ _cond' = NoOne
  /\ \/ /\ ~blocked[r]
        /\ rpc' = [rpc EXCEPT ![r] = "waiting"]
        /\ blocked' = [blocked EXCEPT ![r] = TRUE]
        /\ UNCHANGED <<last_seen, payload>>
     \/ /\ blocked[r]
        /\ history # <<>>
        /\ last_seen' = [last_seen EXCEPT ![r] = _last_seq]
        /\ payload' = [payload EXCEPT ![r] = history[Len(history)]]
        /\ rpc' = [rpc EXCEPT ![r] = "yield"]
        /\ UNCHANGED blocked
     \/ /\ blocked[r]
        /\ history = <<>>
        /\ last_seen' = [last_seen EXCEPT ![r] = _last_seq]
        /\ rpc' = [rpc EXCEPT ![r] = "error"]
        /\ UNCHANGED <<blocked, payload>>
  /\ UNCHANGED <<config, wire, emittedAt, store, _is_simulating,
                 _worker_started, clock, route, wpc, ser, data, arg, called,
                 lockAtAccess, cycleAppended>>

\* Mutant of SubCheck: no wait at all, the loop takes the counter and the
\* latest reading each time round.
SubCheckNoWait(r) ==
  /\ rpc[r] = "sub_check"
  /\ _cond = RequestThread(r)
  /\ _cond' = NoOne
  /\ \/ /\ history # <<>>
        /\ last_seen' = [last_seen EXCEPT ![r] = _last_seq]
        /\ payload' = [payload EXCEPT ![r] = history[Len(history)]]
        /\ rpc' = [rpc EXCEPT ![r] = "yield"]
     \/ /\ history = <<>>
        /\ last_seen' = [last_seen EXCEPT ![r] = _last_seq]
        /\ rpc' = [rpc EXCEPT ![r] = "error"]
        /\ UNCHANGED payload
  /\ UNCHANGED <<config, wire, emittedAt, store, _is_simulating,
                 _worker_started, clock, route, wpc, ser, data, arg, called,
                 blocked, lockAtAccess, cycleAppended>>

\* event_stream, lines 186-188, holding the lock: wait_for evaluates the
\* predicate; if it is false the thread enters wait(), which registers the
\* waiter and releases the lock; if it is true the thread takes _last_seq and
\* history[-1] and leaves the with block (IndexError on an empty deque).
SubCheck(r) ==
  /\ rpc[r] = "sub_check"
  /\ _cond = RequestThread(r)
  /\ _cond' = NoOne
  /\ \/ /\ _last_seq = last_seen[r]
        /\ rpc' = [rpc EXCEPT ![r] = "waiting"]
        /\ blocked' = [blocked EXCEPT ![r] = TRUE]
        /\ UNCHANGED <<last_seen, payload>>
     \/ /\ _last_seq # last_seen[r]
        /\ history # <<>>
        /\ last_seen' = [last_seen EXCEPT ![r] = _last_seq]
        /\ payload' = [payload EXCEPT ![r] = history[Len(history)]]
        /\ rpc' = [rpc EXCEPT ![r] = "yield"]
        /\ UNCHANGED blocked
     \/ /\ _last_seq # last_seen[r]
        /\ history = <<>>
        /\ last_seen' = [last_seen EXCEPT ![r] = _last_seq]
        /\ rpc' = [rpc EXCEPT ![r] = "error"]
        /\ UNCHANGED <<blocked, payload>>
  /\ UNCHANGED <<config, wire, emittedAt, store, _is_simulating,
                 _worker_started, clock, route, wpc, ser, data, arg, called,
                 lockAtAccess, cycleAppended>>

\* Condition.wait after the notification: the woken thread takes the lock
\* again before wait_for evaluates the predicate once more.
SubReacquire(r) ==
  /\ rpc[r] = "notified"
  /\ _cond = NoOne
  /\ _cond' = RequestThread(r)
  /\ rpc' = [rpc EXCEPT ![r] = "sub_check"]
  /\ UNCHANGED <<config, wire, store, _is_simulating, _worker_started, clock,
                 reqLocals, wpc, ser, data, cycleAppended>>

\* event_stream, line 189: yield the message, then loop (payload is dead
\* until it is assigned again).
Yield(r) ==
  /\ rpc[r] = "yield"
  /\ rpc' = [rpc EXCEPT ![r] = "sub_acquire"]
  /\ payload' = [payload EXCEPT ![r] = NoReading]
  /\ emittedAt' = [emittedAt EXCEPT ![r] = last_seen[r]]
  /\ arg' = [arg EXCEPT ![r] = 0]
  /\ called' = [called EXCEPT ![r] = 0]
  /\ blocked' = [blocked EXCEPT ![r] = FALSE]
  /\ UNCHANGED <<config, wire, store, _is_simulating, _worker_started, _cond,
                 clock, route, last_seen, lockAtAccess, wpc, ser, data,
                 cycleAppended>>

\* Line 138: data["timestamp"] = datetime.utcnow().isoformat() + "Z"
Stamped(reading, now) == [reading EXCEPT !.timestamp = now]

\* ------------------------------------------------------ the worker thread
\* Mutant of Connect: the failure to open is raised whatever the fallback
\* setting.
ConnectAlwaysRaises(w) ==
  /\ wpc[w] = "connect"
  /\ \/ /\ ~serial
        /\ _is_simulating' = TRUE
        /\ wpc' = [wpc EXCEPT ![w] = "poll"]
        /\ UNCHANGED ser
     \/ /\ serial
        /\ portPresent
        /\ ser' = [ser EXCEPT ![w] = "open"]
        /\ _is_simulating' = FALSE
        /\ wpc' = [wpc EXCEPT ![w] = "poll"]
     \/ /\ serial
        /\ wpc' = [wpc EXCEPT ![w] = "dead"]
        /\ UNCHANGED <<ser, _is_simulating>>
  /\ UNCHANGED <<config, wire, store, _worker_started, _cond, clock,
                 reqLocals, rpc, data, cycleAppended>>

\* _serial_worker, lines 79-90: open the port, or turn to simulation; with
\* fallback disabled the failure to open is raised out of the thread's target
\* and ends the thread.
Connect(w) ==
  /\ wpc[w] = "connect"
  /\ \/ /\ ~serial
        /\ _is_simulating' = TRUE
        /\ wpc' = [wpc EXCEPT ![w] = "poll"]
        /\ UNCHANGED ser
     \/ /\ serial
        /\ portPresent
        /\ ser' = [ser EXCEPT ![w] = "open"]
        /\ _is_simulating' = FALSE
        /\ wpc' = [wpc EXCEPT ![w] = "poll"]
     \/ /\ serial
        /\ FALLBACK_TO_SIM
        /\ _is_simulating' = TRUE
        /\ wpc' = [wpc EXCEPT ![w] = "poll"]
        /\ UNCHANGED ser
     \/ /\ serial
        /\ ~FALLBACK_TO_SIM
        /\ wpc' = [wpc EXCEPT ![w] = "dead"]
        /\ UNCHANGED <<ser, _is_simulating>>
  /\ UNCHANGED <<config, wire, store, _worker_started, _cond, clock,
                 reqLocals, rpc, data, cycleAppended>>

\* Lines 106-112 with a link: reset_input_buffer (its errors are ignored),
\* write(QUERY_FRAME), which may raise, and the settle delay time.sleep(0.2).
Write(w) ==
  /\ wpc[w] = "poll"
  /\ ser[w] = "open"
  /\ \/ /\ wire' = [wire EXCEPT ![w] = QUERY_FRAME]
        /\ wpc' = [wpc EXCEPT ![w] = "read"]
     \/ /\ wpc' = [wpc EXCEPT ![w] = "except"]
        /\ UNCHANGED wire
  /\ UNCHANGED <<config, store, _is_simulating, _worker_started, _cond, clock,
                 reqLocals, rpc, ser, data, cycleAppended>>

\* Lines 113-117 and 138: resp = ser.read(19), which may raise; a short
\* read skips the cycle; a full read is decoded by _parse_frame, which may
\* raise; a decoded reading gets its timestamp.
Read(w) ==
  /\ wpc[w] = "read"
  /\ wire' = [wire EXCEPT ![w] = <<>>]
  /\ \/ /\ wpc' = [wpc EXCEPT ![w] = "except"]
        /\ UNCHANGED <<data, clock>>
     \/ \E resp \in Responses :
          /\ Len(resp) # FRAME_LEN
          /\ wpc' = [wpc EXCEPT ![w] = "short_sleep"]
          /\ UNCHANGED <<data, clock>>
     \/ \E resp \in Responses :
          /\ Len(resp) = FRAME_LEN
          /\ ~ParseTable[resp].ok
          /\ wpc' = [wpc EXCEPT ![w] = "except"]
          /\ UNCHANGED <<data, clock>>
     \/ \E resp \in Responses :
          /\ Len(resp) = FRAME_LEN
          /\ ParseTable[resp].ok
          /\ clock < MaxAppends
          /\ clock' = clock + 1
          /\ data' = [data EXCEPT ![w] = Stamped(FromDevice(resp), clock + 1)]
          /\ wpc' = [wpc EXCEPT ![w] = "acquire"]
  /\ UNCHANGED <<config, store, _is_simulating, _worker_started, _cond,
                 reqLocals, rpc, ser, cycleAppended>>

\* Mutant of ShortSleep: a short read is handled like a failure with
\* fallback, the link is dropped.
ShortSleepDropsLink(w) ==
  /\ wpc[w] = "short_sleep"
  /\ wpc' = [wpc EXCEPT ![w] = "poll"]
  /\ ser' = [ser EXCEPT ![w] = "None"]
  /\ _is_simulating' = TRUE
  /\ UNCHANGED <<config, wire, store, _worker_started, _cond, clock,
                 reqLocals, rpc, data, cycleAppended>>

\* Line 115: time.sleep(max(0.1, POLL_INTERVAL - 0.2)); continue
ShortSleep(w) ==
  /\ wpc[w] = "short_sleep"
  /\ wpc' = [wpc EXCEPT ![w] = "poll"]
  /\ UNCHANGED <<config, wire, store, _is_simulating, _worker_started, _cond,
                 clock, reqLocals, rpc, ser, data, cycleAppended>>

\* Lines 118-138 without a link: the next synthetic reading and its
\* timestamp.
Simulate(w) ==
  /\ wpc[w] = "poll"
  /\ ser[w] = "None"
  /\ clock < MaxAppends
  /\ clock' = clock + 1
  /\ data' = [data EXCEPT ![w] = Stamped(FromSim, clock + 1)]
  /\ wpc' = [wpc EXCEPT ![w] = "acquire"]
  /\ UNCHANGED <<config, wire, store, _is_simulating, _worker_started, _cond,
                 reqLocals, rpc, ser, cycleAppended>>

\* Mutant of AppendReading: the append is made without taking the lock.
AppendReadingUnlocked(w) ==
  /\ wpc[w] = "acquire"
  /\ history' = DequeAppend(history, data[w], HISTORY_MAX)
  /\ appended' = Append(appended, data[w])
  /\ cycleAppended' = [cycleAppended EXCEPT ![w] = TRUE]
  /\ wpc' = [wpc EXCEPT ![w] = "incr"]
  /\ UNCHANGED <<config, wire, _last_seq, _is_simulating, _worker_started,
                 _cond, clock, reqLocals, rpc, ser, data>>

\* Mutant of AppendReading: the reading is not stored, the counter will
\* still be incremented.
AppendReadingSkipsStore(w) ==
  /\ wpc[w] = "acquire"
  /\ _cond = NoOne
  /\ _cond' = WorkerThread(w)
  /\ wpc' = [wpc EXCEPT ![w] = "incr"]
  /\ UNCHANGED <<config, wire, store, _is_simulating, _worker_started, clock,
                 reqLocals, rpc, ser, data, cycleAppended>>

\* Lines 139-140: with _cond: (acquire the lock), history.append(data)
AppendReading(w) ==
  /\ wpc[w] = "acquire"
  /\ _cond = NoOne
  /\ _cond' = WorkerThread(w)
  /\ history' = DequeAppend(history, data[w], HISTORY_MAX)
  /\ appended' = Append(appended, data[w])
  /\ cycleAppended' = [cycleAppended EXCEPT ![w] = TRUE]
  /\ wpc' = [wpc EXCEPT ![w] = "incr"]
  /\ UNCHANGED <<config, wire, _last_seq, _is_simulating, _worker_started,
                 clock, reqLocals, rpc, ser, data>>

\* Mutant of Increment: the end-of-cycle sleep is inside the with block, the
\* lock is kept.
IncrementKeepsLock(w) ==
  /\ wpc[w] = "incr"
  /\ _cond = WorkerThread(w)
  /\ _last_seq' = _last_seq + 1
  /\ rpc' = [r \in Req |->
       IF r \in notify_all({q \in Req : rpc[q] = "waiting"})
       THEN "notified" ELSE rpc[r]]
  /\ wpc' = [wpc EXCEPT ![w] = "sleep"]
  /\ data' = [data EXCEPT ![w] = NoReading]
  /\ UNCHANGED <<config, wire, history, appended, _is_simulating,
                 _worker_started, _cond, clock, reqLocals, ser,
                 cycleAppended>>

\* Lines 141-142 and the end of the with block: _last_seq += 1,
\* _cond.notify_all(), then the lock is released (data is dead until it is
\* assigned again).
Increment(w) ==
  /\ wpc[w] = "incr"
  /\ _cond = WorkerThread(w)
  /\ _last_seq' = _last_seq + 1
  /\ rpc' = [r \in Req |->
       IF r \in notify_all({q \in Req : rpc[q] = "waiting"})
       THEN "notified" ELSE rpc[r]]
  /\ _cond' = NoOne
  /\ wpc' = [wpc EXCEPT ![w] = "sleep"]
  /\ data' = [data EXCEPT ![w] = NoReading]
  /\ UNCHANGED <<config, wire, history, appended, _is_simulating,
                 _worker_started, clock, reqLocals, ser, cycleAppended>>

\* Line 143: time.sleep(max(0.1, POLL_INTERVAL - 0.2)); the next cycle begins.
Sleep(w) ==
  /\ wpc[w] = "sleep"
  /\ wpc' = [wpc EXCEPT ![w] = "poll"]
  /\ cycleAppended' = [cycleAppended EXCEPT ![w] = FALSE]
  /\ UNCHANGED <<config, wire, store, _is_simulating, _worker_started, _cond,
                 clock, reqLocals, rpc, ser, data>>

\* Mutant of Except: the handler leaves the link as it is and only backs off.
ExceptKeepsLink(w) ==
  /\ wpc[w] = "except"
  /\ wpc' = [wpc EXCEPT ![w] = "backoff"]
  /\ UNCHANGED <<config, wire, store, _is_simulating, _worker_started, _cond,
                 clock, reqLocals, rpc, ser, data, cycleAppended>>

\* Lines 144-151: except Exception: with a link and fallback enabled, close
\* the link, drop it and turn to simulation; ser.close() may raise, which is
\* caught and ignored (lines 146-149), so both outcomes continue alike.
Except(w) ==
  /\ wpc[w] = "except"
  /\ \/ /\ ser[w] # "None" /\ FALLBACK_TO_SIM
        /\ \E closeRaises \in BOOLEAN :
             /\ ser' = [ser EXCEPT ![w] = "None"]
             /\ _is_simulating' = TRUE
     \/ /\ ~(ser[w] # "None" /\ FALLBACK_TO_SIM)
        /\ UNCHANGED <<ser, _is_simulating>>
  /\ wpc' = [wpc EXCEPT ![w] = "backoff"]
  /\ UNCHANGED <<config, wire, store, _worker_started, _cond, clock,
                 reqLocals, rpc, data, cycleAppended>>

\* Line 152: time.sleep(1.0); the next cycle begins.
Backoff(w) ==
  /\ wpc[w] = "backoff"
  /\ wpc' = [wpc EXCEPT ![w] = "poll"]
  /\ UNCHANGED <<config, wire, store, _is_simulating, _worker_started, _cond,
                 clock, reqLocals, rpc, ser, data, cycleAppended>>

\* ------------------------------------------------------------ specification
RequestStep(r) ==
  \/ Begin(r) \/ CheckStarted(r) \/ SetStarted(r) \/ Status(r)
  \/ Snapshot(r) \/ StreamInit(r) \/ SubAcquire(r) \/ SubCheck(r)
  \/ SubReacquire(r) \/ Yield(r)

WorkerStep(w) ==
  \/ Connect(w) \/ Write(w) \/ Read(w) \/ ShortSleep(w)
  \/ Simulate(w) \/ AppendReading(w) \/ Increment(w) \/ Sleep(w)
  \/ Except(w) \/ Backoff(w)

Next == \E t \in Req : RequestStep(t) \/ WorkerStep(t)

Spec == Init /\ [][Next]_vars

\* The steps of a request that has arrived: a thread that can run does run,
\* the arrival of a request (Begin) is not guaranteed.
RequestProgress(r) ==
  \/ CheckStarted(r) \/ SetStarted(r) \/ Status(r) \/ Snapshot(r)
  \/ StreamInit(r) \/ SubAcquire(r) \/ SubCheck(r) \/ SubReacquire(r)
  \/ Yield(r)

\* The program where the port can never be opened and fallback is enabled
\* (SIMULATE_ON_ERROR=1, every serial.Serial(...) raises).  No worker ever
\* holds a link there, so the steps of a physical cycle and of the exception
\* handler are never enabled (FallbackNextIsNext) and are left out.
FallbackInit == Init /\ serial /\ ~portPresent /\ FALLBACK_TO_SIM

FallbackWorkerStep(w) ==
  \/ Connect(w) \/ Simulate(w) \/ AppendReading(w) \/ Increment(w)
  \/ Sleep(w)

FallbackNext == \E t \in Req : RequestStep(t) \/ FallbackWorkerStep(t)

FallbackSpec ==
  /\ FallbackInit
  /\ [][FallbackNext]_vars
  /\ \A t \in Req :
       WF_vars(FallbackWorkerStep(t)) /\ WF_vars(RequestProgress(t))

\* Under Spec, every step taken where the port can never be opened and
\* fallback is enabled is a step of FallbackNext.
FallbackNextIsNext ==
  [][(serial /\ ~portPresent /\ FALLBACK_TO_SIM) => FallbackNext]_vars

\* ------------------------------------------------- _parse_frame on its own
\* Frames a caller may hand to _parse_frame: any sequence of bytes.  The
\* bodies vary the address, the function code, the byte count and the
\* registers; each is sealed with its checksum, with the checksum's low byte
\* off by one, or with the checksum bytes swapped; each such frame is taken
\* whole, without its last byte, and with one byte more.
DecodeBodies ==
  {<<a, fn, bc>> \o regs :
     a \in {1, 2}, fn \in {3, 4}, bc \in {14, 12},
     regs \in {RegBytes, <<0, 0, 255, 255, 1, 0, 0, 1, 0, 20, 0, 15, 0, 30>>}}

SealedVariants(body) ==
  LET good == Sealed(body)
      n == Len(good)
  IN {good,
      [good EXCEPT ![n - 1] = (good[n - 1] + 1) % 256],
      [good EXCEPT ![n - 1] = good[n], ![n] = good[n - 1]]}

DecodeInputs ==
  LET full == UNION {SealedVariants(b) : b \in DecodeBodies}
  IN full \cup {SubSeq(f, 1, Len(f) - 1) : f \in full}
          \cup {Append(f, 0) : f \in full} \cup {<<>>}

\* A call of _parse_frame on any of these frames, the server at rest.
DecodeInit ==
  /\ ServerInit
  /\ decodeIn \in DecodeInputs
  /\ decodeOut = NotDecoded

Decode ==
  /\ decodeOut = NotDecoded
  /\ decodeOut' = _parse_frame(decodeIn)
  /\ UNCHANGED <<HISTORY_MAX, FALLBACK_TO_SIM, serial, portPresent, decodeIn,
                 store, _is_simulating, _worker_started, _cond, clock,
                 reqLocals, rpc, wpc, ser, data, wire, cycleAppended>>

DecodeNext == Decode

DecodeSpec == DecodeInit /\ [][DecodeNext]_vars

\* ------------------------------------------------------------------ claims
Started == {w \in Req : wpc[w] # "unstarted"}

\* C1: whatever the interleaving of the calls of start_worker_once, at most
\* one worker thread is ever started.
C1_SingleWorker == Cardinality(Started) <= 1

MidAppend == {w \in Req : wpc[w] = "incr"}

\* C3: _last_seq grows by exactly 1 per reading appended and changes in no
\* other step, never decreases, and append and increment are one unit under
\* the lock: the counter and the number of appends differ only while the one
\* worker that holds the lock is between its append and its increment.
C3_SeqCountsAppends ==
  /\ [](Cardinality(MidAppend) <= 1)
  /\ [](Len(appended) = _last_seq + Cardinality(MidAppend))
  /\ [](\A w \in MidAppend : _cond = WorkerThread(w))
  /\ [][/\ _last_seq' \in {_last_seq, _last_seq + 1}
        /\ Len(appended') \in {Len(appended), Len(appended) + 1}
        /\ (_last_seq' # _last_seq =>
              \E w \in MidAppend : _cond = WorkerThread(w) /\ wpc'[w] = "sleep")]_vars

\* Two workers (started by racing requests) have both appended.
C3_Witness ==
  /\ _last_seq = 2
  /\ \E i, j \in 1..Len(appended) : appended[i].timestamp > appended[j].timestamp /\ i < j

\* C4: no lost wakeup: a subscriber is never blocked in wait while the
\* counter differs from the value it waits on, so an append that happens
\* between its read of _last_seq and its wait is seen by the predicate.
C4_NoLostWakeup ==
  \A r \in Req : rpc[r] = "waiting" => _last_seq = last_seen[r]

\* The race: request r read _last_seq = 0 in stream(), a reading was appended
\* before r evaluated the predicate, and r returned without blocking.
C4_Witness ==
  \E r \in Req :
    /\ rpc[r] = "yield"
    /\ arg[r] = 0
    /\ ~blocked[r]
    /\ last_seen[r] = 1

\* C5 as stated: a wait that blocked returns the reading whose append woke
\* it (the first one after the call), a wait with a stale value returns the
\* latest reading without blocking.
C5_ReturnsTriggeringReading ==
  \A r \in Req :
    rpc[r] = "yield" =>
      IF blocked[r]
      THEN called[r] = arg[r] /\ payload[r] = appended[arg[r] + 1]
      ELSE called[r] # arg[r] /\ payload[r] = appended[last_seen[r]]

\* C5 amended: a wait blocks exactly when it is called with the current
\* counter; it returns the counter's new value, greater than the one passed,
\* with the latest reading at the moment it resumes under the lock (the
\* reading whose append produced that value), not necessarily the reading
\* that woke it; with an empty history (capacity 0) it raises instead.
C5_ReturnsLatestReading ==
  \A r \in Req :
    /\ rpc[r] \in {"waiting", "notified"} => blocked[r] /\ called[r] = arg[r]
    /\ rpc[r] \in {"yield", "error"} => (blocked[r] <=> called[r] = arg[r])
    /\ rpc[r] = "yield" =>
         /\ last_seen[r] > arg[r]
         /\ payload[r] = appended[last_seen[r]]
    /\ rpc[r] = "error" => HISTORY_MAX = 0 /\ last_seen[r] > arg[r]

\* A wait that blocked at counter 0 and resumed after two appends: it returns
\* the second reading and skips the one that woke it.
C5_Witness ==
  \E r \in Req :
    /\ rpc[r] = "yield"
    /\ blocked[r]
    /\ arg[r] = 0
    /\ last_seen[r] = 2
    /\ payload[r] = appended[2]
    /\ payload[r] # appended[1]

C7_ReadsUnderLock ==
  \A r \in Req : lockAtAccess[r] \in {NotRead, RequestThread(r)}

\* The four checks of a response, stated apart from _parse_frame.
PassesAllChecks(f) ==
  /\ Len(f) = 19
  /\ f[18] + 256 * f[19] = _crc16_modbus(SubSeq(f, 1, 17))
  /\ f[2] = 3
  /\ f[3] = 14

ValidFrames == {f \in Responses : PassesAllChecks(f)}

\* The cycle of worker w has ended in a short read, a decode failure or an
\* I/O error.
FailedCycle(w) == wpc[w] \in {"short_sleep", "except", "backoff"}

\* C8: every reading ever appended is synthetic or was decoded from a
\* response that passes all four checks, and a cycle that ends in a short
\* read, a decode failure or an I/O error appends nothing and leaves the
\* history and the counter as they are.
C8_OnlyValidReadings ==
  /\ [](\A i \in 1..Len(appended) :
          \/ appended[i].origin = "sim"
          \/ /\ appended[i].origin = "device"
             /\ appended[i].frame \in ValidFrames)
  /\ [](\A k \in 1..Len(history) :
          \E j \in 1..Len(appended) : history[k] = appended[j])
  /\ [](\A w \in Req : FailedCycle(w) => ~cycleAppended[w])
  /\ [][\A w \in Req :
          (wpc'[w] # wpc[w] /\ (FailedCycle(w) \/ FailedCycle(w)')) =>
            UNCHANGED <<history, _last_seq, appended>>]_vars

\* A device reading is in the history while a worker handles a failed cycle.
C8_Witness ==
  /\ \E w \in Req : wpc[w] = "except"
  /\ \E i \in 1..Len(history) : history[i].origin = "device"

\* The port can never be opened and fallback is enabled.
FallbackScenario == serial /\ ~portPresent /\ FALLBACK_TO_SIM

\* Worker w is in the simulated polling loop.
SimulatedPolling(w) ==
  wpc[w] \in {"poll", "acquire", "incr", "sleep"} /\ ser[w] = "None"

\* C9: when opening the port always fails and fallback is enabled, every
\* worker started reaches simulated polling with _is_simulating set, no
\* worker ever terminates or polls a link, and readings keep being appended
\* (the counter reaches every value up to the bound of the model).
C9_FallbackKeepsProducing ==
  /\ [](FallbackScenario =>
          \A w \in Req :
            /\ wpc[w] # "dead"
            /\ ser[w] = "None"
            /\ wpc[w] \notin {"unstarted", "connect"} =>
                 SimulatedPolling(w) /\ _is_simulating)
  /\ \A w \in Req :
       (FallbackScenario /\ wpc[w] = "connect") ~>
         (SimulatedPolling(w) /\ _is_simulating)
  /\ \A n \in 0..(MaxAppends - 1) :
       (FallbackScenario /\ Started # {} /\ _last_seq = n) ~> (_last_seq = n + 1)

\* A worker that fell back to simulation has appended up to the bound.
C9_Witness ==
  /\ FallbackScenario
  /\ _last_seq = MaxAppends
  /\ \E w \in Req : SimulatedPolling(w) /\ _is_simulating
  /\ \A i \in 1..Len(appended) : appended[i].origin = "sim"

\* C10: a failure to open the port with fallback disabled reaches the caller
\* of start_worker_once: the system is never marked as started while every
\* worker it started has died.
C10_FailedStartNotMarked ==
  ~(/\ _worker_started
    /\ Started # {}
    /\ \A w \in Started : wpc[w] = "dead")

\* Worker w holds a synthetic reading it is about to append or has appended.
HoldsSynthetic(w) ==
  wpc[w] \in {"acquire", "incr"} /\ data[w] # NoReading /\ data[w].origin = "sim"

\* C11: whenever a synthetic reading is appended, and as long as a worker
\* produces synthetic readings, the flag status() reports is Simulated.
C11_SimulatedWhileSynthetic ==
  \A w \in Req :
    (SimulatedPolling(w) \/ HoldsSynthetic(w)) => _is_simulating

\* The same with a single worker started: the flag is then right.
SingleWorkerSimulatedWhileSynthetic ==
  Cardinality(Started) <= 1 => C11_SimulatedWhileSynthetic

\* An 8-byte read request for 7 registers from register 0: address, function
\* code 3, start and count high byte first, then the checksum of the first six
\* bytes, low byte first.
WellFormedQuery(f) ==
  /\ Len(f) = 8
  /\ f[1] \in 0..255
  /\ f[2] = 3
  /\ 256 * f[3] + f[4] = 0
  /\ 256 * f[5] + f[6] = 7
  /\ f[7] + 256 * f[8] = _crc16_modbus(SubSeq(f, 1, 6))

\* The frame of the source and its near misses.
QueryCandidates ==
  {QUERY_FRAME, QUERY_FRAME_crc_high_first, SubSeq(QUERY_FRAME, 1, 6),
   <<1, 3, 0, 0, 7, 0, 4, 8>>, <<1, 4, 0, 0, 0, 7, 4, 8>>}

WellFormedQueries == {f \in QueryCandidates : WellFormedQuery(f)}

\* C12: every query a worker writes on its link is a well-formed 8-byte
\* request whose last two bytes are the checksum of the first six, low byte
\* first.
C12_QueryFrameWellFormed ==
  \A w \in Req : wire[w] # <<>> => wire[w] \in WellFormedQueries

\* A worker has written its query and waits for the answer.
C12_Witness ==
  \E w \in Req : wpc[w] = "read" /\ ser[w] = "open" /\ wire[w] = QUERY_FRAME


\* C13: _parse_frame tests the length, the checksum, the function code and
\* the byte count in this order and raises the error of the first test that
\* fails; a frame that passes the four tests yields the reading decoded from
\* its address byte and its seven registers.
C13_FirstFailingCheck ==
  decodeOut # NotDecoded =>
    LET f == decodeIn
        lengthOk == Len(f) = 19
        crcOk == f[18] + 256 * f[19] = _crc16_modbus(SubSeq(f, 1, 17))
        R(i) == 256 * f[2 + 2 * i] + f[3 + 2 * i]
    IN IF ~lengthOk THEN decodeOut = [ok |-> FALSE, err |-> "length"]
       ELSE IF ~crcOk THEN decodeOut = [ok |-> FALSE, err |-> "crc"]
       ELSE IF f[2] # 3 THEN decodeOut = [ok |-> FALSE, err |-> "function"]
       ELSE IF f[3] # 14 THEN decodeOut = [ok |-> FALSE, err |-> "bytecount"]
       ELSE /\ decodeOut.ok
            /\ decodeOut.data =
                 [sensor_id |-> f[1], humidity_x10 |-> R(1),
                  temperature_x10 |-> R(2), conductivity |-> R(3),
                  ph_x10 |-> R(4), nitrogen |-> R(5), phosphorus |-> R(6),
                  potassium |-> R(7)]

\* A 19-byte frame with a wrong checksum, a wrong function code and a wrong
\* byte count has been decoded: the checksum error is the one raised.
C13_Witness ==
  /\ Len(decodeIn) = 19
  /\ decodeIn[2] = 4
  /\ decodeIn[3] = 12
  /\ decodeOut = [ok |-> FALSE, err |-> "crc"]

\* C14: with fallback disabled, a worker whose physical cycle failed has
\* closed and dropped its link when it reaches the backoff, so that it
\* connects again instead of polling the same link.
C14_ReconnectsAfterError ==
  \A w \in Req :
    (~FALLBACK_TO_SIM /\ wpc[w] = "backoff") => ser[w] = "None"

\* C15: with fallback enabled, the step that handles a failed physical cycle
\* drops the link and sets the flag to Simulated; the worker is without a
\* link from the backoff on, never gets one again, and every reading a worker
\* without a link appends is synthetic.
C15_FailureTurnsToSimulation ==
  /\ [](\A w \in Req :
          (FALLBACK_TO_SIM /\ wpc[w] = "backoff") => ser[w] = "None")
  /\ [][\A w \in Req :
          (FALLBACK_TO_SIM /\ wpc[w] = "except" /\ wpc'[w] = "backoff") =>
            ser'[w] = "None" /\ _is_simulating']_vars
  /\ [][\A w \in Req :
          (ser[w] = "None" /\ wpc[w] \notin {"unstarted", "connect"}) =>
            ser'[w] = "None"]_vars
  /\ [](\A w \in Req :
          (ser[w] = "None" /\ wpc[w] \in {"acquire", "incr"}) =>
            data[w].origin = "sim")

\* One worker appended a device reading, its next cycle failed, and the
\* reading it appended next is synthetic.
C15_Witness ==
  /\ FALLBACK_TO_SIM
  /\ Cardinality(Started) = 1
  /\ Len(appended) = 2
  /\ appended[1].origin = "device"
  /\ appended[2].origin = "sim"
  /\ _is_simulating

\* Worker w takes a step of a cycle skipped for a short read: the read that
\* returns fewer than 19 bytes, or the sleep that follows it.
SkippedCycleStep(w) ==
  \/ wpc[w] = "read" /\ wpc'[w] = "short_sleep"
  \/ wpc[w] = "short_sleep" /\ wpc'[w] # "short_sleep"

\* C16: a cycle skipped for a short read appends nothing and leaves the
\* history, the counter, the link and the flag as they are; the link is open
\* throughout, and after the sleep the worker is back at the start of a
\* physical cycle on that link.
C16_ShortReadSkipsCycle ==
  /\ [][\A w \in Req :
          SkippedCycleStep(w) =>
            /\ UNCHANGED <<history, _last_seq, appended, _is_simulating>>
            /\ ser[w] = "open" /\ ser'[w] = "open"]_vars
  /\ [](\A w \in Req :
          wpc[w] = "short_sleep" => ser[w] = "open" /\ ~cycleAppended[w])
  /\ [][\A w \in Req :
          (wpc[w] = "short_sleep" /\ wpc'[w] # "short_sleep") =>
            wpc'[w] = "poll" /\ ser'[w] = "open"]_vars

\* After a device reading was appended, a read came back short: the worker
\* is in the sleep of the skipped cycle, its link open, the flag Physical.
C16_Witness ==
  \E w \in Req :
    /\ wpc[w] = "short_sleep"
    /\ ser[w] = "open"
    /\ ~_is_simulating
    /\ Len(history) = 1
    /\ history[1].origin = "device"

\* C17: once a worker is in simulated polling it stays there (it never opens
\* or polls a link again), and from then on the flag never goes from
\* Simulated back to Physical.
C17_SimulationIsSticky ==
  [][\A w \in Req :
       SimulatedPolling(w) =>
         /\ SimulatedPolling(w)'
         /\ (_is_simulating => _is_simulating')]_vars

\* The worker's half of C17: a worker in simulated polling stays there; and
\* the flag's half with a single worker started.
SimulatedPollingIsSticky ==
  [][\A w \in Req :
       SimulatedPolling(w) =>
         /\ SimulatedPolling(w)'
         /\ (Cardinality(Started') <= 1 => _is_simulating')]_vars

\* C18: a worker holds the lock of _cond exactly between its append and the
\* end of its increment and notification, never during the write, the settle
\* delay, the read, a sleep or the backoff; a request thread holds it exactly
\* while it evaluates the predicate and reads the latest reading, never while
\* it is blocked in wait or emits a message.
C18_LockHeldOnlyForStore ==
  /\ \A w \in Req : _cond = WorkerThread(w) <=> wpc[w] = "incr"
  /\ \A r \in Req : _cond = RequestThread(r) <=> rpc[r] = "sub_check"

\* A worker holds the lock for its second append while a subscriber emits the
\* message of the first and the other worker waits for the device's answer.
C18_Witness ==
  \E w, v, r \in Req :
    /\ wpc[w] = "incr"
    /\ _cond = WorkerThread(w)
    /\ _last_seq = 1
    /\ rpc[r] = "yield"
    /\ wpc[v] \in {"read", "sleep", "backoff", "short_sleep"}

Min(a, b) == IF a < b THEN a ELSE b

\* C19 as stated: with a capacity of at least 1, in every reachable state the
\* history is non-empty whenever the counter is non-zero, its length is
\* min(counter, capacity), and no subscriber fails on history[-1].
C19_LengthIsMinOfSeqAndCapacity ==
  HISTORY_MAX >= 1 =>
    /\ (_last_seq # 0 => history # <<>>)
    /\ Len(history) = Min(_last_seq, HISTORY_MAX)
    /\ \A r \in Req : rpc[r] # "error"

\* C19 amended: with a capacity of at least 1 the history is non-empty
\* whenever the counter is non-zero and no subscriber fails on history[-1];
\* the length is min(counter, capacity) whenever no worker holds the lock,
\* and min(counter + 1, capacity) while a worker is between its append and
\* its increment.
C19_LengthIsMinOutsideAppend ==
  HISTORY_MAX >= 1 =>
    /\ (_last_seq # 0 => history # <<>>)
    /\ Len(history) = Min(_last_seq + Cardinality(MidAppend), HISTORY_MAX)
    /\ (MidAppend = {} <=> \A w \in Req : _cond # WorkerThread(w))
    /\ \A r \in Req : rpc[r] # "error"

\* A subscriber that blocked has woken and read the latest reading of a full
\* history of capacity 1, after two appends.
C19_Witness ==
  /\ HISTORY_MAX = 1
  /\ _last_seq = 2
  /\ Len(history) = 1
  /\ \E r \in Req :
       rpc[r] = "yield" /\ blocked[r] /\ payload[r] = history[1]

\* C20: the counter values at which a subscriber emits are strictly
\* increasing: each message is emitted at a value greater than the one of
\* the message before, and carries the reading appended at that value, which
\* is the latest reading when the subscriber takes it, however many were
\* appended since its last message.
C20_EmitsIncreasingLatest ==
  /\ [](\A r \in Req :
          rpc[r] = "yield" =>
            /\ last_seen[r] > emittedAt[r]
            /\ payload[r] = appended[last_seen[r]])
  /\ [][\A r \in Req :
          (rpc[r] # "yield" /\ rpc'[r] = "yield") =>
            /\ last_seen'[r] = _last_seq
            /\ Len(appended) = _last_seq
            /\ payload'[r] = appended[Len(appended)]]_vars
  /\ [][\A r \in Req :
          emittedAt'[r] # emittedAt[r] =>
            emittedAt[r] < emittedAt'[r] /\ emittedAt'[r] = last_seen[r]]_vars

\* One subscriber emitted at 1 and now emits at 2; another one emits its
\* first message at 2, the reading appended at 1 skipped.
C20_Witness ==
  \E r, q \in Req :
    /\ rpc[r] = "yield" /\ emittedAt[r] = 1 /\ last_seen[r] = 2
    /\ rpc[q] = "yield" /\ emittedAt[q] = 0 /\ arg[q] = 0 /\ last_seen[q] = 2
    /\ payload[r] = appended[2] /\ payload[q] = appended[2]

====
